---- MODULE Spec2Model ----
(***************************************************************************)
(* Model of the doubledecker query pipeline: the execute_query handler     *)
(* (src/src/server/core.rs), QueryExecutor::execute_operations and         *)
(* QueryExecutor::apply_operation (src/src/server/executor.rs) and the     *)
(* expression builders of src/src/utils/helpers.rs; then of the handlers   *)
(* running side by side over the database (src/src/db/operations.rs), the  *)
(* bucket and the upload directory.                                        *)
(*                                                                         *)
(* Strings are sequences of one-character strings, so that parsing,        *)
(* formatting and identifier splitting are computed and not assumed.       *)
(* Floats are exact rationals n/d with d > 0; d = 0 encodes the non-finite *)
(* values (n = 1: +inf, n = -1: -inf, n = 0: NaN).                          *)
(***************************************************************************)
EXTENDS Integers, Sequences, FiniteSets, TLC

VARIABLES
    table,       \* the table registered in the request's SessionContext
    operations,  \* payload.operations
    df,          \* the DataFrame variable of execute_operations
    idx,         \* number of operations consumed by the for loop
    applied,     \* history: indices of the operations apply_operation accepted
    failedAt,    \* history: index of the operation whose error was returned, 0 if none
    pc,          \* position of the handler
    batches,     \* Ok value of execute_operations
    response,    \* what the handler returns to the caller
    prev,        \* history: the DataFrame the last accepted operation was applied to
    users,       \* database: the counters of each row of table users
    uploads,     \* database: the rows of table uploads
    saved_queries, \* database: the rows of table saved_queries
    objects,     \* the S3 bucket: key -> stored content
    files,       \* the directory ./uploads: path -> content
    calls        \* the handler invocations in flight: their arguments and locals

requestVars == <<table, operations, df, idx, applied, failedAt, pc, batches, response, prev>>

serverVars == <<users, uploads, saved_queries, objects, files, calls>>

vars == <<table, operations, df, idx, applied, failedAt, pc, batches, response, prev,
          users, uploads, saved_queries, objects, files, calls>>

\* Bounds of the model.
MaxRows == 3
MaxPipelineRows == 2
MaxOps == 2

----------------------------------------------------------------------------
\* Generic helpers.

Range(s) == {s[i] : i \in DOMAIN s}

SeqsUpTo(S, n) == UNION {[1..k -> S] : k \in 0..n}

InjSeqsUpTo(S, n) == {s \in SeqsUpTo(S, n) : \A i, j \in DOMAIN s : s[i] = s[j] => i = j}

Perms(n) == {p \in [1..n -> 1..n] : \A i, j \in 1..n : p[i] = p[j] => i = j}

Min2(a, b) == IF a < b THEN a ELSE b

----------------------------------------------------------------------------
\* Characters and strings.

Digits == <<"0", "1", "2", "3", "4", "5", "6", "7", "8", "9">>

IsDigit(c) == \E i \in 1..10 : Digits[i] = c

DigitVal(c) == (CHOOSE i \in 1..10 : Digits[i] = c) - 1

\* Byte order of the characters the model uses (str::cmp compares bytes).
CharOrder == <<"%", "-", ".", "0", "1", "2", "3", "4", "5", "6", "7", "8", "9",
               "_", "a", "b", "c", "d", "e", "i", "m", "n", "o", "t", "u", "x", "z">>

CharRank(c) == CHOOSE i \in 1..Len(CharOrder) : CharOrder[i] = c

RECURSIVE StrLess(_, _)
StrLess(a, b) ==
    IF b = <<>> THEN FALSE
    ELSE IF a = <<>> THEN TRUE
    ELSE IF Head(a) = Head(b) THEN StrLess(Tail(a), Tail(b))
    ELSE CharRank(Head(a)) < CharRank(Head(b))

HasChar(s, c) == \E i \in DOMAIN s : s[i] = c

----------------------------------------------------------------------------
\* Cells, fields and tables.

Null == [t |-> "null", n |-> 0, d |-> 1, s |-> <<>>]
IntCell(k) == [t |-> "int", n |-> k, d |-> 1, s |-> <<>>]
FloatCell(n, d) == [t |-> "float", n |-> n, d |-> d, s |-> <<>>]
StrCell(s) == [t |-> "str", n |-> 0, d |-> 1, s |-> s]

IsNull(c) == c.t = "null"

\* The name the request's table is registered under (core.rs: load_csv(&s3_path, &table_name)).
TableName == <<"t">>

Field(name, type, qual) == [name |-> name, type |-> type, qual |-> qual]

FieldNames(schema) == [i \in DOMAIN schema |-> schema[i].name]

IsNumericType(type) == type \in {"Int64", "Float64"}

----------------------------------------------------------------------------
\* Number parsing and formatting.

RECURSIVE DigitsVal(_)
DigitsVal(s) == IF s = <<>> THEN 0 ELSE DigitsVal(SubSeq(s, 1, Len(s) - 1)) * 10 + DigitVal(s[Len(s)])

RECURSIVE Pow10(_)
Pow10(k) == IF k = 0 THEN 1 ELSE 10 * Pow10(k - 1)

AllDigits(s) == \A i \in DOMAIN s : IsDigit(s[i])

\* value.parse::<f64>() on the decimal forms [+-]digits[.digits] (no exponent,
\* inf or nan spellings): Ok(n/d) or Err.
ParseF64(value) ==
    LET signed == value # <<>> /\ Head(value) \in {"-", "+"}
        neg == value # <<>> /\ Head(value) = "-"
        body == IF signed THEN Tail(value) ELSE value
        dots == {i \in DOMAIN body : body[i] = "."}
        dot == IF dots = {} THEN Len(body) + 1 ELSE CHOOSE i \in dots : \A j \in dots : i <= j
        ip == SubSeq(body, 1, dot - 1)
        fp == SubSeq(body, dot + 1, Len(body))
        wellFormed == AllDigits(ip) /\ AllDigits(fp) /\ Len(ip) + Len(fp) > 0
        mag == DigitsVal(ip) * Pow10(Len(fp)) + DigitsVal(fp)
    IN IF wellFormed
       THEN [ok |-> TRUE, n |-> IF neg THEN 0 - mag ELSE mag, d |-> Pow10(Len(fp))]
       ELSE [ok |-> FALSE, n |-> 0, d |-> 1]

RECURSIVE FormatNat(_)
FormatNat(k) == IF k < 10 THEN <<Digits[k + 1]>> ELSE FormatNat(k \div 10) \o <<Digits[(k % 10) + 1]>>

\* CAST(Int64 AS Utf8)
FormatInt(k) == IF k < 0 THEN <<"-">> \o FormatNat(0 - k) ELSE FormatNat(k)

RECURSIVE FracDigits(_, _, _)
FracDigits(r, d, k) ==
    IF r = 0 \/ k = 0 THEN <<>>
    ELSE <<Digits[((r * 10) \div d) + 1]>> \o FracDigits((r * 10) % d, d, k - 1)

\* CAST(Float64 AS Utf8) of a finite value: 5 -> "5.0", 21/2 -> "10.5"
FormatF64(n, d) ==
    LET a == IF n < 0 THEN 0 - n ELSE n
        frac == FracDigits(a % d, d, 4)
    IN (IF n < 0 THEN <<"-">> ELSE <<>>) \o FormatNat(a \div d) \o <<".">>
       \o (IF frac = <<>> THEN <<"0">> ELSE frac)

\* Exact comparison of finite rationals a.n/a.d and b.n/b.d (d > 0).
RatLess(an, ad, bn, bd) == an * bd < bn * ad
RatEq(an, ad, bn, bd) == an * bd = bn * ad

----------------------------------------------------------------------------
\* Column references.

\* col(name): Column::from_qualified_name parses the name as a dotted path; a name
\* the identifier parser rejects (a space, a '-') falls back to the whole name.
col(name) ==
    LET dots == {i \in DOMAIN name : name[i] = "."}
        last == CHOOSE i \in dots : \A j \in dots : j <= i
    IN IF dots = {} \/ HasChar(name, " ") \/ HasChar(name, "-")
       THEN [relation |-> <<>>, name |-> name]
       ELSE [relation |-> SubSeq(name, 1, last - 1), name |-> SubSeq(name, last + 1, Len(name))]

\* col_escaped(name): the name as one literal identifier.
col_escaped(name) == [relation |-> <<>>, name |-> name]

\* Index of the field a column reference denotes in a schema, 0 when there is none.
Resolve(schema, column) ==
    LET hits == {i \in DOMAIN schema :
                    /\ schema[i].name = column.name
                    /\ (column.relation = <<>> \/ schema[i].qual = column.relation)}
    IN IF hits = {} THEN 0 ELSE CHOOSE i \in hits : \A j \in hits : i <= j

----------------------------------------------------------------------------
\* Operations (utils/statics.rs) as records of one shape.

NoAlias == [some |-> FALSE, name |-> <<>>]
SomeAlias(a) == [some |-> TRUE, name |-> a]

Aggregation(function, column, alias) == [function |-> function, column |-> column, alias |-> alias]

BlankOp ==
    [type |-> "", columns |-> <<>>, column |-> <<>>, operator |-> "", value |-> <<>>,
     aggregations |-> <<>>, ascending |-> TRUE, count |-> 0, operation |-> "",
     fvalue |-> [n |-> 0, d |-> 1], alias |-> <<>>]

Select(columns) == [BlankOp EXCEPT !.type = "Select", !.columns = columns]
Filter(column, operator, value) ==
    [BlankOp EXCEPT !.type = "Filter", !.column = column, !.operator = operator, !.value = value]
GroupBy(columns, aggregations) ==
    [BlankOp EXCEPT !.type = "GroupBy", !.columns = columns, !.aggregations = aggregations]
Sort(column, ascending) == [BlankOp EXCEPT !.type = "Sort", !.column = column, !.ascending = ascending]
Limit(count) == [BlankOp EXCEPT !.type = "Limit", !.count = count]
Transform(column, operation, n, d, alias) ==
    [BlankOp EXCEPT !.type = "Transform", !.column = column, !.operation = operation,
                    !.fvalue = [n |-> n, d |-> d], !.alias = alias]

----------------------------------------------------------------------------
\* DataFusion results.

NoError == [kind |-> "none", text |-> "", column |-> <<>>]
SchemaErrorFieldNotFound(name) == [kind |-> "SchemaError", text |-> "FieldNotFound", column |-> name]
SchemaErrorDuplicateField(name) == [kind |-> "SchemaError", text |-> "DuplicateUnqualifiedField", column |-> name]
PlanError(text) == [kind |-> "Plan", text |-> text, column |-> <<>>]

EmptyDf == [schema |-> <<>>, rows |-> <<>>]

Ok(d) == [ok |-> TRUE, df |-> d, err |-> NoError]
Err(e) == [ok |-> FALSE, df |-> EmptyDf, err |-> e]

----------------------------------------------------------------------------
\* Ordering of values.

IsFinite(c) == c.d # 0

\* Float64 total order classes: -inf < finite < +inf < NaN.
NumClass(c) == IF c.d # 0 THEN 1 ELSE IF c.n < 0 THEN 0 ELSE IF c.n > 0 THEN 2 ELSE 3

NumLess(a, b) ==
    IF NumClass(a) # NumClass(b) THEN NumClass(a) < NumClass(b)
    ELSE IsFinite(a) /\ RatLess(a.n, a.d, b.n, b.d)

\* a < b for two non-null cells of one column.
CellLess(a, b) == IF a.t = "str" THEN StrLess(a.s, b.s) ELSE NumLess(a, b)

----------------------------------------------------------------------------
\* Filter predicates (helpers.rs build_filter_expr, evaluated by df.filter).

RECURSIVE LikeMatch(_, _)
LikeMatch(s, p) ==
    IF p = <<>> THEN s = <<>>
    ELSE IF Head(p) = "%" THEN LikeMatch(s, Tail(p)) \/ (s # <<>> /\ LikeMatch(Tail(s), p))
    ELSE IF s = <<>> THEN FALSE
    ELSE (Head(p) = "_" \/ Head(p) = Head(s)) /\ LikeMatch(Tail(s), Tail(p))

\* CAST(cell AS Utf8)
CellToStr(c) ==
    IF c.t = "str" THEN c.s ELSE IF c.t = "int" THEN FormatInt(c.n) ELSE FormatF64(c.n, c.d)

Compare(operator, less, eq) ==
    CASE operator = "Eq" -> eq
      [] operator = "Ne" -> ~eq
      [] operator = "Gt" -> ~less /\ ~eq
      [] operator = "Ge" -> ~less
      [] operator = "Lt" -> less
      [] operator = "Le" -> less \/ eq

FilterLiteralAlwaysString(value) == StrCell(value)

\* The literal of the predicate: lit(num) when the value parses as f64, else lit(value).
FilterLiteral(value) ==
    LET num == ParseF64(value)
    IN IF num.ok THEN FloatCell(num.n, num.d) ELSE StrCell(value)

\* Whether the predicate built from (operator, value) is true of a cell; a
\* comparison with a null cell is null and the row is dropped. A numeric column
\* against a Float64 literal compares as Float64; any comparison with a Utf8
\* side compares the Utf8 casts.
FilterTrue(cell, operator, value) ==
    LET lit == FilterLiteral(value)
    IN IF IsNull(cell) THEN FALSE
       ELSE IF operator = "Contains"
       THEN LikeMatch(cell.s, <<"%">> \o value \o <<"%">>)
       ELSE IF lit.t = "float" /\ cell.t # "str"
       THEN Compare(operator, NumLess(cell, lit), ~NumLess(cell, lit) /\ ~NumLess(lit, cell))
       ELSE LET a == CellToStr(cell)
                b == CellToStr(lit)
            IN Compare(operator, StrLess(a, b), a = b)

KeepNewestFirst(rows, hit) ==
    LET F[i \in 0..Len(rows)] ==
            IF i = 0 THEN <<>>
            ELSE IF hit[i] THEN <<rows[i]>> \o F[i - 1] ELSE F[i - 1]
    IN F[Len(rows)]

\* The rows of a batch whose predicate value hit[i] is true, in their order.
Keep(rows, hit) ==
    LET F[i \in 0..Len(rows)] ==
            IF i = 0 THEN <<>>
            ELSE IF hit[i] THEN Append(F[i - 1], rows[i]) ELSE F[i - 1]
    IN F[Len(rows)]

----------------------------------------------------------------------------
\* Float64 arithmetic on exact rationals (signed zeros are not distinguished).

RECURSIVE Gcd(_, _)
Gcd(a, b) == IF b = 0 THEN a ELSE Gcd(b, a % b)

Abs(x) == IF x < 0 THEN 0 - x ELSE x
Sgn(x) == IF x < 0 THEN 0 - 1 ELSE IF x > 0 THEN 1 ELSE 0

F64(n, d) == [n |-> n, d |-> d]
NaN == F64(0, 0)
Inf(sign) == F64(sign, 0)
IsNaN(a) == a.d = 0 /\ a.n = 0

Norm(n, d) == LET g == Gcd(Abs(n), d) IN F64(n \div g, d \div g)

FAdd(a, b) ==
    IF IsNaN(a) \/ IsNaN(b) THEN NaN
    ELSE IF a.d # 0 /\ b.d # 0 THEN Norm(a.n * b.d + b.n * a.d, a.d * b.d)
    ELSE IF a.d = 0 /\ b.d = 0 THEN (IF a.n = b.n THEN a ELSE NaN)
    ELSE IF a.d = 0 THEN a ELSE b

FNeg(a) == F64(0 - a.n, a.d)

FMul(a, b) ==
    IF IsNaN(a) \/ IsNaN(b) THEN NaN
    ELSE IF a.d # 0 /\ b.d # 0 THEN Norm(a.n * b.n, a.d * b.d)
    ELSE IF a.n = 0 \/ b.n = 0 THEN NaN
    ELSE Inf(Sgn(a.n) * Sgn(b.n))

FDiv(a, b) ==
    IF IsNaN(a) \/ IsNaN(b) THEN NaN
    ELSE IF a.d # 0 /\ b.d # 0
    THEN (IF b.n = 0 THEN (IF a.n = 0 THEN NaN ELSE Inf(Sgn(a.n)))
          ELSE Norm(a.n * b.d * Sgn(b.n), a.d * Abs(b.n)))
    ELSE IF a.d = 0 /\ b.d = 0 THEN NaN
    ELSE IF a.d = 0 THEN Inf(Sgn(a.n) * (IF b.n < 0 THEN 0 - 1 ELSE 1))
    ELSE F64(0, 1)

\* source_expr <op> value_lit (executor.rs, Transform)
TransformExpr(operation, a, b) ==
    CASE operation = "Multiply" -> FMul(a, b)
      [] operation = "Divide" -> FDiv(a, b)
      [] operation = "Add" -> FAdd(a, b)
      [] operation = "Subtract" -> FAdd(a, FNeg(b))

----------------------------------------------------------------------------
\* The DataFrame operations apply_operation calls.

FirstOf(S) == CHOOSE i \in S : \A j \in S : i <= j

\* A projection that keeps the requested columns in the order of the input schema.
DfSelectSchemaOrder(d, cols) ==
    LET at == [i \in DOMAIN cols |-> Resolve(d.schema, cols[i])]
        missing == {i \in DOMAIN cols : at[i] = 0}
        P == Range(at)
        nth(x) == CHOOSE m \in P : Cardinality({y \in P : y < m}) = x - 1
    IN IF missing # {} THEN Err(SchemaErrorFieldNotFound(cols[FirstOf(missing)].name))
       ELSE Ok([schema |-> [x \in 1..Cardinality(P) |-> d.schema[nth(x)]],
                rows |-> [r \in DOMAIN d.rows |-> [x \in 1..Cardinality(P) |-> d.rows[r][nth(x)]]]])

\* df.select(cols)
DfSelect(d, cols) ==
    LET at == [i \in DOMAIN cols |-> Resolve(d.schema, cols[i])]
        missing == {i \in DOMAIN cols : at[i] = 0}
        dup == \E i, j \in DOMAIN cols : i # j /\ cols[i].name = cols[j].name
    IN IF missing # {} THEN Err(SchemaErrorFieldNotFound(cols[FirstOf(missing)].name))
       ELSE IF dup THEN Err(PlanError("Projections require unique expression names"))
       ELSE Ok([schema |-> [i \in DOMAIN cols |-> d.schema[at[i]]],
                rows |-> [r \in DOMAIN d.rows |-> [i \in DOMAIN cols |-> d.rows[r][at[i]]]]])

\* build_filter_expr(column, operator, value): the predicate as data.
build_filter_expr(column, operator, value) ==
    [column |-> col(column), operator |-> operator, value |-> value]

\* df.filter(expr): keeps, in order, the rows the predicate is true of.
DfFilter(d, expr) ==
    LET at == Resolve(d.schema, expr.column)
        hit == [r \in DOMAIN d.rows |-> FilterTrue(d.rows[r][at], expr.operator, expr.value)]
    IN IF at = 0 THEN Err(SchemaErrorFieldNotFound(expr.column.name))
       ELSE IF expr.operator = "Contains" /\ d.schema[at].type # "Utf8"
       THEN Err(PlanError("There isn't a common type to coerce in LIKE expression"))
       ELSE Ok([d EXCEPT !.rows = Keep(d.rows, hit)])

\* expr.sort(asc, nulls_first)
SortExpr(column, asc, nulls_first) == [column |-> column, asc |-> asc, nulls_first |-> nulls_first]

\* Strict order of two cells under a sort expression.
SortsBefore(a, b, e) ==
    IF IsNull(a) \/ IsNull(b)
    THEN IsNull(a) # IsNull(b) /\ (IsNull(a) <=> e.nulls_first)
    ELSE IF e.asc THEN CellLess(a, b) ELSE CellLess(b, a)

\* df.sort(vec![e]): every arrangement of the rows that is ordered by e; the
\* order among rows whose keys tie is not fixed by the sort.
DfSort(d, e) ==
    LET at == Resolve(d.schema, e.column)
        n == Len(d.rows)
        sorted(p) == \A i, j \in 1..n : i < j => ~SortsBefore(d.rows[p[j]][at], d.rows[p[i]][at], e)
    IN IF at = 0 THEN {Err(SchemaErrorFieldNotFound(e.column.name))}
       ELSE {Ok([d EXCEPT !.rows = [i \in 1..n |-> d.rows[p[i]]]]) : p \in {q \in Perms(n) : sorted(q)}}

\* df.limit(count, None): the count taken as the number of rows to skip.
DfLimitAsSkip(d, count) == Ok([d EXCEPT !.rows = SubSeq(d.rows, count + 1, Len(d.rows))])

\* df.limit(0, Some(count))
DfLimit(d, count) == Ok([d EXCEPT !.rows = SubSeq(d.rows, 1, Min2(count, Len(d.rows)))])

\* A with_column that appends the new column even when the name is taken.
DfWithColumnAlwaysAppends(d, alias, source, operation, value) ==
    LET at == Resolve(d.schema, source)
        out(row) == IF IsNull(row[at]) THEN Null
                    ELSE LET v == TransformExpr(operation, F64(row[at].n, row[at].d), value)
                         IN FloatCell(v.n, v.d)
    IN IF at = 0 THEN Err(SchemaErrorFieldNotFound(source.name))
       ELSE IF ~IsNumericType(d.schema[at].type)
       THEN Err(PlanError("Cannot coerce arithmetic expression to valid types"))
       ELSE Ok([schema |-> Append(d.schema, Field(alias, "Float64", <<>>)),
                rows |-> [r \in DOMAIN d.rows |-> Append(d.rows[r], out(d.rows[r]))]])

\* df.with_column(alias, source <op> lit(value))
DfWithColumn(d, alias, source, operation, value) ==
    LET at == Resolve(d.schema, source)
        out(row) == IF IsNull(row[at]) THEN Null
                    ELSE LET v == TransformExpr(operation, F64(row[at].n, row[at].d), value)
                         IN FloatCell(v.n, v.d)
        field == Field(alias, "Float64", <<>>)
        old == {i \in DOMAIN d.schema : d.schema[i].name = alias}
    IN IF at = 0 THEN Err(SchemaErrorFieldNotFound(source.name))
       ELSE IF ~IsNumericType(d.schema[at].type)
       THEN Err(PlanError("Cannot coerce arithmetic expression to valid types"))
       ELSE IF old # {}
       THEN Ok([schema |-> [d.schema EXCEPT ![FirstOf(old)] = field],
                rows |-> [r \in DOMAIN d.rows |-> [d.rows[r] EXCEPT ![FirstOf(old)] = out(d.rows[r])]]])
       ELSE Ok([schema |-> Append(d.schema, field),
                rows |-> [r \in DOMAIN d.rows |-> Append(d.rows[r], out(d.rows[r]))]])

----------------------------------------------------------------------------
\* Aggregation (helpers.rs build_aggregation_expr, evaluated by df.aggregate).

FuncName(function) ==
    CASE function = "Sum" -> <<"s", "u", "m">>
      [] function = "Avg" -> <<"a", "v", "g">>
      [] function = "Max" -> <<"m", "a", "x">>
      [] function = "Min" -> <<"m", "i", "n">>
      [] function = "Count" -> <<"c", "o", "u", "n", "t">>

\* build_aggregation_expr(agg): the aggregate over col(&agg.column), aliased if asked.
build_aggregation_expr(agg) ==
    [function |-> agg.function, column |-> col(agg.column), alias |-> agg.alias]

FlatName(field) == IF field.qual = <<>> THEN field.name ELSE field.qual \o <<".">> \o field.name

\* Output column name of an aggregate expression over a resolved field.
AggOutputName(expr, field) ==
    IF expr.alias.some THEN expr.alias.name
    ELSE FuncName(expr.function) \o <<"(">> \o FlatName(field) \o <<")">>

AggOutputType(function, type) ==
    CASE function = "Count" -> "Int64"
      [] function = "Avg" -> "Float64"
      [] OTHER -> type

RECURSIVE SumCells(_)
SumCells(cells) ==
    IF cells = <<>> THEN F64(0, 1)
    ELSE FAdd(F64(Head(cells).n, Head(cells).d), SumCells(Tail(cells)))

RECURSIVE BestCell(_, _)
BestCell(cells, wantMax) ==
    IF Len(cells) = 1 THEN Head(cells)
    ELSE LET rest == BestCell(Tail(cells), wantMax)
             h == Head(cells)
         IN IF wantMax THEN (IF CellLess(h, rest) THEN rest ELSE h)
            ELSE (IF CellLess(rest, h) THEN rest ELSE h)

\* An aggregate that takes null cells as zeros instead of skipping them.
AggValueCountsNulls(function, type, cells) ==
    LET total == SumCells(cells)
    IN CASE function = "Count" -> IntCell(Len(cells))
         [] cells = <<>> -> Null
         [] function = "Sum" -> (IF type = "Int64" THEN IntCell(total.n) ELSE FloatCell(total.n, total.d))
         [] function = "Avg" -> (LET q == FDiv(total, F64(Len(cells), 1)) IN FloatCell(q.n, q.d))
         [] function = "Max" -> BestCell(cells, TRUE)
         [] function = "Min" -> BestCell(cells, FALSE)

\* Value of an aggregate over the cells of one group; null cells are skipped.
AggValue(function, type, cells) ==
    LET vals == SelectSeq(cells, LAMBDA c : ~IsNull(c))
        total == SumCells(vals)
    IN CASE function = "Count" -> IntCell(Len(vals))
         [] vals = <<>> -> Null
         [] function = "Sum" -> (IF type = "Int64" THEN IntCell(total.n) ELSE FloatCell(total.n, total.d))
         [] function = "Avg" -> (LET q == FDiv(total, F64(Len(vals), 1)) IN FloatCell(q.n, q.d))
         [] function = "Max" -> BestCell(vals, TRUE)
         [] function = "Min" -> BestCell(vals, FALSE)

\* The key of a row: its cells at the positions gAt of the group columns.
GroupKey(row, gAt) == [i \in DOMAIN gAt |-> row[gAt[i]]]

\* A grouping that opens a group for every row.
GroupRepresentativesEveryRow(rows, gAt) == DOMAIN rows

\* One row position per distinct key: the first row holding it.
GroupRepresentatives(rows, gAt) ==
    {r \in DOMAIN rows : \A q \in DOMAIN rows : q < r => GroupKey(rows[q], gAt) # GroupKey(rows[r], gAt)}

\* df.aggregate(group_cols, agg_cols): one row per distinct key; the order of
\* the output rows is not fixed by the hash aggregation.
DfAggregate(d, group_cols, agg_cols) ==
    LET gAt == [i \in DOMAIN group_cols |-> Resolve(d.schema, group_cols[i])]
        aAt == [j \in DOMAIN agg_cols |-> Resolve(d.schema, agg_cols[j].column)]
        gMissing == {i \in DOMAIN group_cols : gAt[i] = 0}
        aMissing == {j \in DOMAIN agg_cols : aAt[j] = 0}
        badType == {j \in DOMAIN agg_cols :
                        agg_cols[j].function \in {"Sum", "Avg"} /\ ~IsNumericType(d.schema[aAt[j]].type)}
        key(row) == GroupKey(row, gAt)
        firsts == GroupRepresentatives(d.rows, gAt)
        groupCells(r, j) ==
            LET members == SelectSeq(d.rows, LAMBDA row : key(row) = key(d.rows[r]))
            IN [m \in DOMAIN members |-> members[m][aAt[j]]]
        outRow(r) ==
            key(d.rows[r]) \o
            [j \in DOMAIN agg_cols |->
                AggValue(agg_cols[j].function, d.schema[aAt[j]].type, groupCells(r, j))]
        outSchema ==
            [i \in DOMAIN group_cols |-> d.schema[gAt[i]]] \o
            [j \in DOMAIN agg_cols |->
                Field(AggOutputName(agg_cols[j], d.schema[aAt[j]]),
                      AggOutputType(agg_cols[j].function, d.schema[aAt[j]].type), <<>>)]
        dup == \E i, j \in DOMAIN outSchema : i # j /\ outSchema[i].name = outSchema[j].name
        k == Cardinality(firsts)
        orders == {o \in [1..k -> firsts] : \A i, j \in 1..k : o[i] = o[j] => i = j}
    IN IF gMissing # {} THEN {Err(SchemaErrorFieldNotFound(group_cols[FirstOf(gMissing)].name))}
       ELSE IF aMissing # {} THEN {Err(SchemaErrorFieldNotFound(agg_cols[FirstOf(aMissing)].column.name))}
       ELSE IF badType # {} THEN {Err(PlanError("No function matches the given name and argument types"))}
       ELSE IF dup THEN {Err(SchemaErrorDuplicateField(outSchema[FirstOf({i \in DOMAIN outSchema : \E j \in DOMAIN outSchema : i # j /\ outSchema[i].name = outSchema[j].name})].name))}
       ELSE {Ok([schema |-> outSchema, rows |-> [i \in 1..k |-> outRow(o[i])]]) : o \in orders}

----------------------------------------------------------------------------
\* QueryExecutor::apply_operation: the set of results the call can return.

apply_operation(d, op) ==
    CASE op.type = "Select" ->
            {DfSelect(d, [i \in DOMAIN op.columns |-> col_escaped(op.columns[i])])}
      [] op.type = "Filter" ->
            {DfFilter(d, build_filter_expr(op.column, op.operator, op.value))}
      [] op.type = "GroupBy" ->
            IF op.columns = <<>>
            THEN {Err(PlanError("GroupBy requires at least one column to group by"))}
            ELSE IF op.aggregations = <<>>
            THEN {Err(PlanError("GroupBy requires at least one aggregation function (e.g., SUM, AVG, COUNT)"))}
            ELSE DfAggregate(d, [i \in DOMAIN op.columns |-> col_escaped(op.columns[i])],
                             [j \in DOMAIN op.aggregations |-> build_aggregation_expr(op.aggregations[j])])
      [] op.type = "Sort" ->
            DfSort(d, IF op.ascending THEN SortExpr(col_escaped(op.column), TRUE, TRUE)
                      ELSE SortExpr(col_escaped(op.column), FALSE, TRUE))
      [] op.type = "Transform" ->
            {DfWithColumn(d, op.alias, col_escaped(op.column), op.operation, op.fvalue)}
      [] op.type = "Limit" -> {DfLimit(d, op.count)}

----------------------------------------------------------------------------
\* Errors and responses of the handler (utils/error.rs, server/core.rs).

\* DataFusionError::to_string()
ErrToString(e) ==
    [prefix |-> CASE e.kind = "Plan" -> "Error during planning: "
                  [] e.kind = "SchemaError" -> "Schema error: "
                  [] OTHER -> "",
     text |-> e.text, column |-> e.column]

DoubledeckerError(variant, message) == [variant |-> variant, message |-> message]

NoDoubledeckerError == DoubledeckerError("none", ErrToString(NoError))

\* .map_err(|e| DoubledeckerError::QueryExecution(e.to_string()))
MapExecuteError(e) == DoubledeckerError("QueryExecution", ErrToString(e))

\* DoubledeckerError::status_code
status_code(e) ==
    CASE e.variant \in {"FileUpload", "MultipartError", "InvalidFilePath", "InvalidQuery", "BadRequest"} -> 400
      [] e.variant \in {"ColumnNotFound", "TableNotFound", "NotFound"} -> 404
      [] e.variant \in {"AuthenticationError", "Unauthorized"} -> 401
      [] OTHER -> 500

Pending == [status |-> "pending", columns |-> <<>>, rows |-> <<>>, error |-> NoDoubledeckerError]
Failure(e) == [status |-> "error", columns |-> <<>>, rows |-> <<>>, error |-> e]
Success(q) == [status |-> "ok", columns |-> q.columns, rows |-> q.rows, error |-> NoDoubledeckerError]

\* df.collect(): the rows as record batches; a result without rows comes as no
\* batch or as one empty batch, a result with rows as one batch or split in two.
CollectOutcomes(d) ==
    IF d.rows = <<>> THEN {<<>>, <<d>>}
    ELSE {<<d>>} \cup
         {<<[d EXCEPT !.rows = SubSeq(d.rows, 1, k)], [d EXCEPT !.rows = SubSeq(d.rows, k + 1, Len(d.rows))]>> :
             k \in 1..(Len(d.rows) - 1)}

\* extract_typed_value: the JSON value of a cell, or the error of a non-finite float.
\* An encoder that turns every float into a JSON number, finite or not.
extract_typed_value_unchecked(c) ==
    IF IsNull(c) THEN [ok |-> TRUE, json |-> [j |-> "null", n |-> 0, d |-> 1, s |-> <<>>]]
    ELSE IF c.t = "str" THEN [ok |-> TRUE, json |-> [j |-> "string", n |-> 0, d |-> 1, s |-> c.s]]
    ELSE [ok |-> TRUE, json |-> [j |-> "number", n |-> c.n, d |-> c.d, s |-> <<>>]]

extract_typed_value(c) ==
    IF IsNull(c) THEN [ok |-> TRUE, json |-> [j |-> "null", n |-> 0, d |-> 1, s |-> <<>>]]
    ELSE IF c.t = "str" THEN [ok |-> TRUE, json |-> [j |-> "string", n |-> 0, d |-> 1, s |-> c.s]]
    ELSE IF c.t = "float" /\ c.d = 0 THEN [ok |-> FALSE, json |-> [j |-> "null", n |-> 0, d |-> 1, s |-> <<>>]]
    ELSE [ok |-> TRUE, json |-> [j |-> "number", n |-> c.n, d |-> c.d, s |-> <<>>]]

RECURSIVE ConcatRows(_)
ConcatRows(bs) == IF bs = <<>> THEN <<>> ELSE Head(bs).rows \o ConcatRows(Tail(bs))

\* An encoder that appends the column names of every batch to the column list.
parse_batch_to_json_columns_per_batch(bs) ==
    LET all == ConcatRows(bs)
        bad == \E r \in DOMAIN all : \E c \in DOMAIN all[r] : ~extract_typed_value(all[r][c]).ok
        names[k \in 0..Len(bs)] == IF k = 0 THEN <<>> ELSE names[k - 1] \o FieldNames(bs[k].schema)
    IN IF bs = <<>> THEN [ok |-> TRUE, columns |-> <<>>, rows |-> <<>>]
       ELSE IF bad THEN [ok |-> FALSE, columns |-> <<>>, rows |-> <<>>]
       ELSE [ok |-> TRUE, columns |-> names[Len(bs)],
             rows |-> [r \in DOMAIN all |-> [c \in DOMAIN all[r] |-> extract_typed_value(all[r][c]).json]]]

\* An encoder that leaves null cells out of the row arrays.
parse_batch_to_json_omits_nulls(bs) ==
    LET all == ConcatRows(bs)
        bad == \E r \in DOMAIN all : \E c \in DOMAIN all[r] : ~extract_typed_value(all[r][c]).ok
        kept(row) == SelectSeq(row, LAMBDA c : ~IsNull(c))
    IN IF bs = <<>> THEN [ok |-> TRUE, columns |-> <<>>, rows |-> <<>>]
       ELSE IF bad THEN [ok |-> FALSE, columns |-> <<>>, rows |-> <<>>]
       ELSE [ok |-> TRUE, columns |-> FieldNames(bs[1].schema),
             rows |-> [r \in DOMAIN all |->
                          [c \in DOMAIN kept(all[r]) |-> extract_typed_value(kept(all[r])[c]).json]]]

\* parse_batch_to_json
parse_batch_to_json(bs) ==
    LET all == ConcatRows(bs)
        bad == \E r \in DOMAIN all : \E c \in DOMAIN all[r] : ~extract_typed_value(all[r][c]).ok
    IN IF bs = <<>> THEN [ok |-> TRUE, columns |-> <<>>, rows |-> <<>>]
       ELSE IF bad THEN [ok |-> FALSE, columns |-> <<>>, rows |-> <<>>]
       ELSE [ok |-> TRUE, columns |-> FieldNames(bs[1].schema),
             rows |-> [r \in DOMAIN all |-> [c \in DOMAIN all[r] |-> extract_typed_value(all[r][c]).json]]]

InvalidFloat == DoubledeckerError("DataFusionError", [prefix |-> "", text |-> "Invalid float value", column |-> <<>>])

----------------------------------------------------------------------------
\* The inputs of a request.

ColId == <<"i", "d">>
ColName == <<"n", "a", "m", "e">>
ColAmount == <<"a", "m", "o", "u", "n", "t">>
ColDotted == <<"a", ".", "b">>
ColAbsent == <<"z", "z">>

BaseSchema ==
    <<Field(ColId, "Int64", TableName), Field(ColName, "Utf8", TableName),
      Field(ColAmount, "Float64", TableName), Field(ColDotted, "Int64", TableName)>>

RowPool ==
    {<<IntCell(1), StrCell(<<"a">>), FloatCell(21, 2), IntCell(5)>>,
     <<IntCell(2), StrCell(<<"b">>), FloatCell(20, 1), IntCell(5)>>,
     <<IntCell(3), StrCell(<<"c">>), Null, Null>>,
     <<IntCell(4), StrCell(<<"a">>), Null, IntCell(3)>>}

TablesUpTo(n) == {[schema |-> BaseSchema, rows |-> r] : r \in InjSeqsUpTo(RowPool, n)}

OpPool ==
    {Select(<<ColName, ColId>>), Select(<<ColAbsent>>), Select(<<ColDotted>>),
     Filter(ColId, "Gt", <<"1">>), Filter(ColDotted, "Eq", <<"5">>), Filter(ColAbsent, "Eq", <<"5">>),
     GroupBy(<<>>, <<Aggregation("Count", ColId, NoAlias)>>), GroupBy(<<ColName>>, <<>>),
     GroupBy(<<>>, <<>>), GroupBy(<<ColName>>, <<Aggregation("Sum", ColAmount, NoAlias)>>),
     Sort(ColAmount, TRUE), Sort(ColDotted, FALSE), Sort(ColAbsent, TRUE),
     Limit(1),
     Transform(ColId, "Multiply", 2, 1, <<"x">>), Transform(ColName, "Add", 1, 1, <<"x">>),
     Transform(ColAbsent, "Add", 1, 1, <<"x">>)}

----------------------------------------------------------------------------
\* execute_query: the state after load_csv registered the table.

\* No other handler is running and the stores are empty.
ServerIdle ==
    /\ users = <<>>
    /\ uploads = {}
    /\ saved_queries = {}
    /\ objects = <<>>
    /\ files = <<>>
    /\ calls = <<>>

InitWith(T, O) ==
    /\ table \in T
    /\ operations \in O
    /\ df = table
    /\ prev = table
    /\ idx = 0
    /\ applied = <<>>
    /\ failedAt = 0
    /\ pc = "execute"
    /\ batches = <<>>
    /\ response = Pending
    /\ ServerIdle

Init == InitWith(TablesUpTo(MaxPipelineRows), SeqsUpTo(OpPool, MaxOps))

LoopInputRegisteredTable(t, d) == t

\* The DataFrame the loop hands to apply_operation: `df = self.apply_operation(df, op)`.
LoopInput(t, d) == d

QuestionSwallowsErr(d, i, r) ==
    IF r.ok THEN [continue |-> TRUE, df |-> r.df, idx |-> i + 1]
    ELSE [continue |-> TRUE, df |-> d, idx |-> i + 1]

\* `...await?` in the loop: an Ok value is the next df, an Err leaves the function.
Question(d, i, r) ==
    IF r.ok THEN [continue |-> TRUE, df |-> r.df, idx |-> i + 1]
    ELSE [continue |-> FALSE, df |-> d, idx |-> i]

\* One iteration of `for op in operations { df = self.apply_operation(df, op).await?; }`
ApplyOperationStep ==
    /\ pc = "execute"
    /\ idx < Len(operations)
    /\ \E r \in apply_operation(LoopInput(table, df), operations[idx + 1]) :
        LET q == Question(df, idx, r)
        IN /\ df' = q.df
           /\ idx' = q.idx
           /\ IF q.continue
              THEN /\ applied' = Append(applied, idx + 1)
                   /\ prev' = LoopInput(table, df)
                   /\ UNCHANGED <<failedAt, pc, response>>
              ELSE /\ failedAt' = idx + 1
                   /\ pc' = "done"
                   /\ response' = Failure(MapExecuteError(r.err))
                   /\ UNCHANGED <<applied, prev>>
    /\ UNCHANGED <<table, operations, batches>>
    /\ UNCHANGED serverVars

\* df.collect().await after the loop
Collect ==
    /\ pc = "execute"
    /\ idx = Len(operations)
    /\ \E b \in CollectOutcomes(df) : batches' = b
    /\ pc' = "encode"
    /\ UNCHANGED <<table, operations, df, idx, applied, failedAt, response, prev>>
    /\ UNCHANGED serverVars

\* parse_batch_to_json(batches).await? and the Ok(Json(response)) of the handler
EncodeResponse ==
    /\ pc = "encode"
    /\ LET q == parse_batch_to_json(batches)
       IN response' = IF q.ok THEN Success(q) ELSE Failure(InvalidFloat)
    /\ pc' = "done"
    /\ UNCHANGED <<table, operations, df, idx, applied, failedAt, batches, prev>>
    /\ UNCHANGED serverVars

Next == ApplyOperationStep \/ Collect \/ EncodeResponse

Spec == Init /\ [][Next]_vars

----------------------------------------------------------------------------
\* Reference semantics of a whole operation list, by recursion on the list.

RECURSIVE Pipeline(_, _)
\* The tables op_n(...op_1(d)...) can be, when no operation fails.
Pipeline(d, ops) ==
    IF ops = <<>> THEN {d}
    ELSE UNION {Pipeline(r.df, Tail(ops)) : r \in {x \in apply_operation(d, Head(ops)) : x.ok}}

RECURSIVE Failures(_, _, _)
\* The (index, error) pairs of the first operation that fails, the operations
\* before it having been applied in order starting from d at index k.
Failures(d, ops, k) ==
    IF ops = <<>> THEN {}
    ELSE LET rs == apply_operation(d, Head(ops))
         IN {[index |-> k, err |-> r.err] : r \in {x \in rs : ~x.ok}}
            \cup UNION {Failures(r.df, Tail(ops), k + 1) : r \in {x \in rs : x.ok}}

Iota(n) == [i \in 1..n |-> i]

Returned == pc \in {"encode", "done"} /\ failedAt = 0

----------------------------------------------------------------------------
\* C1: when no operation fails, execute_operations returns op_n(...op_1(T)...):
\* every operation is applied exactly once, in list order, to the output of the
\* one before it; an empty list returns T unchanged.
C1_AppliedInListOrder ==
    Returned =>
        /\ applied = Iota(Len(operations))
        /\ df \in Pipeline(table, operations)
        /\ (operations = <<>> => df = table)
        /\ (batches # <<>> => ConcatRows(batches) = df.rows)

C1_Witness ==
    /\ Returned
    /\ Len(operations) = 2
    /\ operations[1].type = "Filter"
    /\ operations[2].type = "Select"
    /\ Len(df.rows) = 1
    /\ Len(table.rows) = 2

CarriesIndex(e, k) ==
    \/ "index" \in DOMAIN e /\ e["index"] = k
    \/ "index" \in DOMAIN e.message /\ e.message["index"] = k

\* C3: when operation k is the first to fail, the returned error carries the
\* index k together with that operation's error.
C3_ErrorCarriesIndex ==
    (pc = "done" /\ failedAt # 0) =>
        /\ CarriesIndex(response.error, failedAt)
        /\ \E f \in Failures(table, operations, 1) : response.error.message = ErrToString(f.err)

----------------------------------------------------------------------------
\* The operation accepted last and the one that failed.

HasNames(schema) == {schema[i].name : i \in DOMAIN schema}

\* Position of the column literally named `name`, 0 when the schema has none.
IndexOfName(schema, name) ==
    IF name \in HasNames(schema) THEN FirstOf({i \in DOMAIN schema : schema[i].name = name}) ELSE 0

\* The column names an operation references.
ReferencedNames(op) ==
    CASE op.type = "Select" -> Range(op.columns)
      [] op.type = "GroupBy" -> Range(op.columns) \cup {op.aggregations[j].column : j \in DOMAIN op.aggregations}
      [] op.type = "Limit" -> {}
      [] OTHER -> {op.column}

NamesAbsentColumn(op, schema) == ReferencedNames(op) \ HasNames(schema) # {}

AfterSort == idx > 0 /\ operations[idx].type = "Sort"

\* C4: after Sort, ascending or descending, every row with a null in the sort
\* column comes after every row with a non-null there.
C4_NullsSortLast ==
    AfterSort =>
        LET at == IndexOfName(df.schema, operations[idx].column)
        IN \A i, j \in DOMAIN df.rows : (IsNull(df.rows[i][at]) /\ ~IsNull(df.rows[j][at])) => j < i

\* C5: Sort{column, ascending: true} then Limit{count: 1} on a non-empty table
\* returns exactly one row, the first in pre-sort order of the rows holding the
\* smallest value of the column.
C5_SortLimitSmallest ==
    (/\ idx = 2 /\ failedAt = 0
     /\ operations[1].type = "Sort" /\ operations[1].ascending
     /\ operations[2].type = "Limit" /\ operations[2].count = 1
     /\ table.rows # <<>>) =>
        LET at == IndexOfName(table.schema, operations[1].column)
            valued == {r \in DOMAIN table.rows : ~IsNull(table.rows[r][at])}
            least == {r \in valued : \A q \in valued : ~CellLess(table.rows[q][at], table.rows[r][at])}
        IN /\ Len(df.rows) = 1
           /\ (valued # {} => df.rows[1] = table.rows[FirstOf(least)])

\* C6: a Select, Filter, Sort or Transform naming a column absent from the
\* current schema fails the request with an error of kind ColumnNotFound.
C6_ColumnNotFoundKind ==
    (/\ pc = "done" /\ failedAt # 0
     /\ operations[failedAt].type \in {"Select", "Filter", "Sort", "Transform"}
     /\ NamesAbsentColumn(operations[failedAt], df.schema)) =>
        /\ response.status = "error"
        /\ response.error.variant = "ColumnNotFound"
        /\ response.error.variant # "QueryExecution"

\* C7: GroupBy with empty columns fails with InvalidQuery, GroupBy with empty
\* aggregations fails with InvalidQuery, each whatever the other list holds,
\* and no aggregation is performed.
C7_GroupByInvalidQuery ==
    \A k \in DOMAIN operations :
        (/\ pc = "done"
         /\ Len(applied) >= k - 1
         /\ operations[k].type = "GroupBy"
         /\ (operations[k].columns = <<>> \/ operations[k].aggregations = <<>>)) =>
            /\ failedAt = k
            /\ applied = Iota(k - 1)
            /\ response.status = "error"
            /\ response.error.variant = "InvalidQuery"

\* C8: every operation resolves a column name as one literal identifier, the
\* Filter predicate and the aggregation expressions like Select, GroupBy keys,
\* Sort and Transform: no operation whose names are all columns of the current
\* schema fails for a missing field.
C8_UniformEscaping ==
    (/\ pc = "done" /\ failedAt # 0
     /\ ~NamesAbsentColumn(operations[failedAt], df.schema)) =>
        response.error.message.text # "FieldNotFound"

----------------------------------------------------------------------------
\* Requests made of Filter operations only.

CompareOps == {"Eq", "Ne", "Gt", "Ge", "Lt", "Le"}

FilterValues ==
    {<<"2">>, <<"2", ".", "0">>, <<"0", "2">>, <<"3">>, <<"1", "0", ".", "5">>, <<"a">>, <<"2", ".">>}

FilterPool ==
    {Filter(c, o, v) : c \in {ColId, ColAmount}, o \in CompareOps, v \in FilterValues}
    \cup {Filter(ColName, o, v) : o \in CompareOps \cup {"Contains"}, v \in {<<"a">>, <<"b">>, <<"2">>}}
    \cup {Filter(ColName, "Contains", v) : v \in {<<"_">>, <<"%">>, <<>>}}

FilterChain == {Filter(ColId, "Ge", <<"2">>), Filter(ColId, "Ne", <<"3">>), Filter(ColName, "Contains", <<"a">>)}

InitFilter == InitWith(TablesUpTo(MaxRows), {<<f>> : f \in FilterPool} \cup SeqsUpTo(FilterChain, MaxOps))

SpecFilter == InitFilter /\ [][Next]_vars

AfterFilter == idx > 0 /\ operations[idx].type = "Filter"

\* The x-th smallest member of a set of integers.
NthOf(S, x) == CHOOSE m \in S : Cardinality({y \in S : y < m}) = x - 1

\* The rows of `rows` at the positions of S, in increasing position.
RowsAt(rows, S) == [x \in 1..Cardinality(S) |-> rows[NthOf(S, x)]]

\* Whether integer k stands in relation `operator` to the rational n/d.
IntRelates(operator, k, n, d) ==
    CASE operator = "Eq" -> k * d = n
      [] operator = "Ne" -> k * d # n
      [] operator = "Gt" -> k * d > n
      [] operator = "Ge" -> k * d >= n
      [] operator = "Lt" -> k * d < n
      [] operator = "Le" -> k * d <= n

\* C9: a Filter value that parses as a number is compared numerically: on an
\* integer column the rows kept are exactly those whose cell stands in the
\* operator's relation to that number (with Eq, whose cell equals it), so two
\* value strings parsing to the same number keep the same rows.
C9_NumericLiteral ==
    (AfterFilter /\ ParseF64(operations[idx].value).ok /\ operations[idx].operator \in CompareOps) =>
        LET op == operations[idx]
            at == IndexOfName(prev.schema, op.column)
            q == ParseF64(op.value)
            hits == {r \in DOMAIN prev.rows :
                        ~IsNull(prev.rows[r][at]) /\ IntRelates(op.operator, prev.rows[r][at].n, q.n, q.d)}
        IN prev.schema[at].type = "Int64" =>
            /\ df.rows = RowsAt(prev.rows, hits)
            /\ \A v \in FilterValues :
                (ParseF64(v).ok /\ RatEq(ParseF64(v).n, ParseF64(v).d, q.n, q.d)) =>
                    DfFilter(prev, build_filter_expr(op.column, op.operator, v)) = Ok(df)

C9_Witness ==
    /\ AfterFilter
    /\ operations[idx] = Filter(ColId, "Eq", <<"2", ".", "0">>)
    /\ Len(prev.rows) = 3
    /\ Len(df.rows) = 1
    /\ df.rows[1][1] = IntCell(2)

\* C10: the output of Filter is exactly the subsequence of the input rows the
\* predicate is true of: the schema is unchanged, no row is added or altered,
\* and the surviving rows keep their relative order.
C10_FilterSubsequence ==
    AfterFilter =>
        LET op == operations[idx]
            at == IndexOfName(prev.schema, op.column)
            hits == {r \in DOMAIN prev.rows : FilterTrue(prev.rows[r][at], op.operator, op.value)}
        IN /\ df.schema = prev.schema
           /\ df.rows = RowsAt(prev.rows, hits)

C10_Witness ==
    /\ AfterFilter
    /\ Len(prev.rows) = 3
    /\ df.rows = <<prev.rows[1], prev.rows[3]>>
    /\ prev.rows[1][1].n > prev.rows[3][1].n

----------------------------------------------------------------------------
\* Whether v occurs in s as a contiguous run of characters, compared exactly.
IsSubstring(s, v) ==
    \E k \in 0..(Len(s) - Len(v)) : \A i \in 1..Len(v) : s[k + i] = v[i]

\* C11: Filter with Contains keeps a row of a string column exactly when the
\* cell contains the value as a case-sensitive literal substring, for every
\* value string, those holding '%' or '_' and those that parse as numbers
\* included.
C11_ContainsLiteral ==
    (AfterFilter /\ operations[idx].operator = "Contains") =>
        LET op == operations[idx]
            at == IndexOfName(prev.schema, op.column)
            hits == {r \in DOMAIN prev.rows :
                        ~IsNull(prev.rows[r][at]) /\ IsSubstring(prev.rows[r][at].s, op.value)}
        IN prev.schema[at].type = "Utf8" => df.rows = RowsAt(prev.rows, hits)

----------------------------------------------------------------------------
\* Requests made of Select, Limit and Transform over every table of the pool.

MaxCount == 5

SelectPool ==
    {Select(<<ColName, ColId>>), Select(<<ColId>>), Select(<<ColId, ColName>>),
     Select(<<ColAmount, ColId, ColName>>), Select(<<ColId, ColAbsent>>)}

LimitPool == {Limit(0), Limit(1), Limit(2), Limit(MaxCount)}

TransformPool ==
    {Transform(ColId, "Multiply", 2, 1, <<"x">>),
     Transform(ColAmount, "Add", 1, 1, ColAmount),
     Transform(ColId, "Subtract", 1, 2, ColName),
     Transform(ColAmount, "Divide", 0, 1, <<"x">>),
     Transform(ColId, "Divide", 0, 1, ColId),
     Transform(ColId, "Divide", 2, 1, ColAmount)}

InitProject ==
    InitWith(TablesUpTo(MaxRows), SeqsUpTo(SelectPool \cup LimitPool \cup TransformPool, MaxOps))

SpecProject == InitProject /\ [][Next]_vars

AfterSelect == idx > 0 /\ operations[idx].type = "Select"

\* C12: Select produces a table whose schema is exactly the requested names
\* in the requested order, with the same rows in the same order; so a Select
\* of [a, b] followed by a Select of [a] equals the Select of [a] alone.
C12_SelectProjects ==
    AfterSelect =>
        LET cols == operations[idx].columns
        IN /\ FieldNames(df.schema) = cols
           /\ Len(df.rows) = Len(prev.rows)
           /\ \A r \in DOMAIN df.rows : \A i \in DOMAIN cols :
                df.rows[r][i] = prev.rows[r][IndexOfName(prev.schema, cols[i])]
           /\ (idx = 2 /\ operations[1].type = "Select") =>
                DfSelect(table, [i \in DOMAIN cols |-> col_escaped(cols[i])]) = Ok(df)

C12_Witness ==
    /\ AfterSelect
    /\ idx = 2
    /\ operations[1] = Select(<<ColAmount, ColId, ColName>>)
    /\ operations[2] = Select(<<ColName, ColId>>)
    /\ Len(df.rows) = 3
    /\ df.rows[2] = <<table.rows[2][2], table.rows[2][1]>>

----------------------------------------------------------------------------
\* Requests made of one GroupBy, alone or followed by a Limit.

\* The table of the end-to-end scenario: columns [id, name, amount].
ScenarioTable ==
    [schema |-> <<Field(ColId, "Int64", TableName), Field(ColName, "Utf8", TableName),
                  Field(ColAmount, "Float64", TableName)>>,
     rows |-> <<<<IntCell(1), StrCell(<<"a">>), FloatCell(21, 2)>>,
                <<IntCell(2), StrCell(<<"b">>), FloatCell(20, 1)>>,
                <<IntCell(3), StrCell(<<"c">>), Null>>>>]

ScenarioGroupBy == GroupBy(<<ColName>>, <<Aggregation("Sum", ColAmount, NoAlias)>>)

GroupPool ==
    {ScenarioGroupBy,
     GroupBy(<<ColName>>, <<Aggregation("Sum", ColAmount, SomeAlias(<<"x">>))>>),
     GroupBy(<<ColName>>, <<Aggregation("Count", ColAmount, NoAlias),
                            Aggregation("Avg", ColAmount, SomeAlias(<<"x">>))>>),
     GroupBy(<<ColAmount>>, <<Aggregation("Count", ColName, NoAlias)>>),
     GroupBy(<<ColName, ColAmount>>, <<Aggregation("Sum", ColId, NoAlias),
                                       Aggregation("Max", ColAmount, NoAlias)>>),
     GroupBy(<<ColName>>, <<Aggregation("Min", ColAmount, SomeAlias(ColId)),
                            Aggregation("Avg", ColId, NoAlias)>>),
     GroupBy(<<ColName>>, <<>>),
     GroupBy(<<ColAbsent>>, <<Aggregation("Count", ColId, NoAlias)>>)}

InitGroup ==
    InitWith(TablesUpTo(MaxRows) \cup {ScenarioTable},
             {<<g>> : g \in GroupPool} \cup {<<g, Limit(1)>> : g \in GroupPool})

SpecGroup == InitGroup /\ [][Next]_vars

AfterGroupBy == idx > 0 /\ operations[idx].type = "GroupBy"

\* Positions in the input schema of the group columns of a GroupBy.
KeyPositions(schema, op) == [i \in DOMAIN op.columns |-> IndexOfName(schema, op.columns[i])]

\* C13: GroupBy returns one row per distinct tuple of group-column values, and
\* its schema is the group columns in the given order followed by one column
\* per aggregation in the given order.
C13_OneRowPerKey ==
    AfterGroupBy =>
        LET op == operations[idx]
            g == Len(op.columns)
            gAt == KeyPositions(prev.schema, op)
            keys == {GroupKey(prev.rows[r], gAt) : r \in DOMAIN prev.rows}
        IN /\ Len(df.schema) = g + Len(op.aggregations)
           /\ \A i \in 1..g : df.schema[i].name = op.columns[i]
           /\ \A j \in DOMAIN op.aggregations :
                op.aggregations[j].alias.some => df.schema[g + j].name = op.aggregations[j].alias.name
           /\ {SubSeq(df.rows[r], 1, g) : r \in DOMAIN df.rows} = keys
           /\ Len(df.rows) = Cardinality(keys)
           /\ \A r \in DOMAIN df.rows : Len(df.rows[r]) = Len(df.schema)

C13_Witness ==
    /\ AfterGroupBy
    /\ operations[idx].columns = <<ColName, ColAmount>>
    /\ Len(prev.rows) = 3
    /\ Len(df.rows) = 3
    /\ \E r \in DOMAIN df.rows : IsNull(df.rows[r][2])
    /\ Len(df.schema) = 4

RECURSIVE RatSum(_, _, _)
\* The sum, as an unreduced fraction, of the cells of column `at` in the rows S.
RatSum(rows, at, S) ==
    IF S = {} THEN [n |-> 0, d |-> 1]
    ELSE LET q == CHOOSE x \in S : TRUE
             rest == RatSum(rows, at, S \ {q})
             c == rows[q][at]
         IN [n |-> c.n * rest.d + rest.n * c.d, d |-> c.d * rest.d]

\* C14: Sum and Avg are computed over the non-null cells of the aggregated
\* column only, and Count returns the number of non-null cells of the group,
\* not its number of rows.
C14_AggregatesSkipNulls ==
    AfterGroupBy =>
        LET op == operations[idx]
            g == Len(op.columns)
            gAt == KeyPositions(prev.schema, op)
        IN \A r \in DOMAIN df.rows : \A j \in DOMAIN op.aggregations :
            LET agg == op.aggregations[j]
                at == IndexOfName(prev.schema, agg.column)
                members == {q \in DOMAIN prev.rows : GroupKey(prev.rows[q], gAt) = SubSeq(df.rows[r], 1, g)}
                valued == {q \in members : ~IsNull(prev.rows[q][at])}
                total == RatSum(prev.rows, at, valued)
                cell == df.rows[r][g + j]
            IN /\ agg.function = "Count" => cell = IntCell(Cardinality(valued))
               /\ (agg.function = "Sum" /\ valued # {}) =>
                    ~IsNull(cell) /\ cell.n * total.d = total.n * cell.d
               /\ (agg.function = "Avg" /\ valued # {}) =>
                    ~IsNull(cell) /\ cell.n * total.d * Cardinality(valued) = total.n * cell.d

C14_Witness ==
    /\ AfterGroupBy
    /\ operations[idx].columns = <<ColName>>
    /\ operations[idx].aggregations[1] = Aggregation("Count", ColAmount, NoAlias)
    /\ operations[idx].aggregations[2].function = "Avg"
    /\ Len(prev.rows) = 3
    /\ \E r \in DOMAIN df.rows :
        /\ df.rows[r] = <<StrCell(<<"a">>), IntCell(1), FloatCell(21, 2)>>
        /\ Cardinality({q \in DOMAIN prev.rows : prev.rows[q][2] = StrCell(<<"a">>)}) = 2

\* C15: in the end-to-end scenario, GroupBy on name with Sum(amount) over the
\* full table returns three rows, and the group "c", whose only amount is
\* null, has a sum that is a number (0 contributed), not null.
C15_ScenarioSumOfNullGroup ==
    (AfterGroupBy /\ prev = ScenarioTable /\ operations[idx] = ScenarioGroupBy) =>
        /\ Len(df.rows) = 3
        /\ \A r \in DOMAIN df.rows :
            df.rows[r][1] = StrCell(<<"c">>) => (~IsNull(df.rows[r][2]) /\ df.rows[r][2].n = 0)

\* C16: an aggregation with an alias yields a column named exactly the alias;
\* one without yields a column named "<func>(<column>)", built from the
\* function and the bare column name only, whatever the table is called.
C16_AggregateColumnName ==
    AfterGroupBy =>
        LET op == operations[idx]
            g == Len(op.columns)
        IN \A j \in DOMAIN op.aggregations :
            LET agg == op.aggregations[j]
            IN df.schema[g + j].name =
                IF agg.alias.some THEN agg.alias.name
                ELSE FuncName(agg.function) \o <<"(">> \o agg.column \o <<")">>

\* The QueryResponse a collected table encodes to.
ResponseOf(d) ==
    LET q == parse_batch_to_json(<<d>>)
    IN IF q.ok THEN Success(q) ELSE Failure(InvalidFloat)

\* C17: for a fixed table and a fixed operation list, GroupBy included, two
\* executions return identical QueryResponses: the response returned is the
\* one every execution of the same request returns.
C17_Deterministic ==
    (pc = "done" /\ failedAt = 0 /\ df.rows # <<>>) =>
        \A d \in Pipeline(table, operations) : d.rows # <<>> => ResponseOf(d) = response

----------------------------------------------------------------------------
AfterLimit == idx > 0 /\ operations[idx].type = "Limit"

\* C18: Limit{count} on a table of n rows returns its first min(count, n)
\* rows with the schema unchanged, and never fails, count > n and count = 0
\* included.
C18_LimitPrefix ==
    /\ (failedAt # 0 => operations[failedAt].type # "Limit")
    /\ AfterLimit =>
        LET count == operations[idx].count
            n == Len(prev.rows)
        IN /\ df.schema = prev.schema
           /\ Len(df.rows) = (IF count < n THEN count ELSE n)
           /\ \A i \in DOMAIN df.rows : df.rows[i] = prev.rows[i]

C18_Witness ==
    /\ AfterLimit
    /\ operations = <<Limit(MaxCount), Limit(2)>>
    /\ Len(table.rows) = 3
    /\ prev = table
    /\ df.rows = <<table.rows[1], table.rows[2]>>

AfterTransform == idx > 0 /\ operations[idx].type = "Transform"

\* C19: Transform changes only the alias column: an alias naming an existing
\* column replaces it at the same position and the column count is unchanged,
\* any other alias is appended as the last column; every other column keeps
\* its name, position and values, and the rows keep their number and order.
C19_TransformFrame ==
    AfterTransform =>
        LET alias == operations[idx].alias
            at == IndexOfName(prev.schema, alias)
            w == Len(prev.schema)
            target == IF at # 0 THEN at ELSE w + 1
        IN /\ Len(df.schema) = (IF at # 0 THEN w ELSE w + 1)
           /\ df.schema[target].name = alias
           /\ \A i \in DOMAIN prev.schema : i # target => df.schema[i] = prev.schema[i]
           /\ Len(df.rows) = Len(prev.rows)
           /\ \A r \in DOMAIN df.rows :
                /\ Len(df.rows[r]) = Len(df.schema)
                /\ \A i \in DOMAIN prev.schema : i # target => df.rows[r][i] = prev.rows[r][i]

C19_Witness ==
    /\ AfterTransform
    /\ operations[idx] = Transform(ColId, "Subtract", 1, 2, ColName)
    /\ Len(prev.rows) = 3
    /\ FieldNames(df.schema) = FieldNames(prev.schema)
    /\ df.schema[2].type = "Float64"
    /\ df.rows[3][2] = FloatCell(2 * prev.rows[3][1].n - 1, 2)
    /\ df.rows[3][1] = prev.rows[3][1]

\* A Transform dividing by zero.
DividesByZero(op) == op.type = "Transform" /\ op.operation = "Divide" /\ op.fvalue.n = 0

NonFiniteCell(c) == c.t = "float" /\ c.d = 0

\* C20: a Transform{Divide} by 0 never lets NaN or an infinity reach a returned
\* response: whatever the table, the request returns nulls in the result
\* cells or fails with an error, by one policy (a division that takes place
\* fails the request), and no successful response holds a non-finite number.
C20_DivideByZeroPolicy ==
    pc = "done" =>
        /\ response.status = "ok" =>
            \A r \in DOMAIN response.rows : \A c \in DOMAIN response.rows[r] :
                response.rows[r][c].j = "number" => response.rows[r][c].d # 0
        /\ failedAt = 0 =>
            LET nonFinite == \E r \in DOMAIN df.rows : \E c \in DOMAIN df.rows[r] : NonFiniteCell(df.rows[r][c])
            IN IF nonFinite THEN response = Failure(InvalidFloat)
               ELSE response.status = "ok" /\ (df.rows # <<>> => response = ResponseOf(df))
        /\ (failedAt = 0 /\ operations # <<>> /\ DividesByZero(operations[Len(operations)])) =>
            LET at == IndexOfName(df.schema, operations[Len(operations)].alias)
                src == IndexOfName(prev.schema, operations[Len(operations)].column)
            IN \A r \in DOMAIN df.rows :
                IF IsNull(prev.rows[r][src]) THEN IsNull(df.rows[r][at]) ELSE NonFiniteCell(df.rows[r][at])

C20_Witness ==
    /\ pc = "done"
    /\ operations = <<Transform(ColAmount, "Divide", 0, 1, <<"x">>)>>
    /\ Len(table.rows) = 2
    /\ IsNull(table.rows[1][3])
    /\ df.rows[2][5] = FloatCell(1, 0)
    /\ response = Failure(InvalidFloat)

----------------------------------------------------------------------------
\* The response once the handler has returned.

Encoded == pc = "done" /\ failedAt = 0

HasNonFinite(d) == \E r \in DOMAIN d.rows : \E c \in DOMAIN d.rows[r] : NonFiniteCell(d.rows[r][c])

\* C21: JSON encoding of a float cell that is NaN or an infinity fails the
\* whole encoding with an explicit SerializationError, emitting neither a null
\* nor a sentinel nor the other rows, and the request fails.
C21_NonFiniteSerializationError ==
    (Encoded /\ HasNonFinite(df)) =>
        /\ response.status = "error"
        /\ response.rows = <<>> /\ response.columns = <<>>
        /\ response.error.variant = "SerializationError"

\* C22: every QueryResponse of parse_batch_to_json has len(row) = len(columns)
\* for every row, each value standing under the column it came from, whatever
\* the number of record batches of the result.
C22_RowsAlignedWithColumns ==
    (Encoded /\ response.status = "ok") =>
        /\ \A r \in DOMAIN response.rows : Len(response.rows[r]) = Len(response.columns)
        /\ batches # <<>> =>
            /\ Len(response.rows) = Len(df.rows)
            /\ \A c \in DOMAIN response.columns : response.columns[c] = df.schema[c].name
            /\ \A r \in DOMAIN response.rows : \A c \in DOMAIN response.columns :
                response.rows[r][c] = extract_typed_value(df.rows[r][c]).json

C22_Witness ==
    /\ Encoded
    /\ response.status = "ok"
    /\ Len(batches) = 2
    /\ Len(batches[1].rows) = 1
    /\ Len(response.rows) = 3
    /\ Len(response.columns) = 5
    /\ response.rows[3][5].j = "number"

\* C23: the column list of the QueryResponse is the final table's schema
\* column names in schema order for every final table, one with zero rows
\* included.
C23_ColumnsOfEveryFinalTable ==
    (Encoded /\ response.status = "ok") => response.columns = FieldNames(df.schema)

----------------------------------------------------------------------------
\* CSV text: a sequence of characters, lines ended by "\n".

RECURSIVE DoubleQuotes(_)
DoubleQuotes(text) ==
    IF text = <<>> THEN <<>>
    ELSE (IF Head(text) = "\"" THEN <<"\"", "\"">> ELSE <<Head(text)>>) \o DoubleQuotes(Tail(text))

\* One cell of a QueryResponse as a CSV field.
CsvField(v) ==
    CASE v.j = "null" -> <<>>
      [] v.j = "string" ->
            IF HasChar(v.s, ",") \/ HasChar(v.s, "\"") \/ HasChar(v.s, "\n")
            THEN <<"\"">> \o DoubleQuotes(v.s) \o <<"\"">>
            ELSE v.s
      [] OTHER -> IF v.d = 1 THEN FormatInt(v.n) ELSE FormatF64(v.n, v.d)

RECURSIVE JoinWith(_, _)
JoinWith(parts, sep) ==
    IF parts = <<>> THEN <<>>
    ELSE IF Len(parts) = 1 THEN parts[1]
    ELSE parts[1] \o sep \o JoinWith(Tail(parts), sep)

RECURSIVE Flatten(_)
Flatten(parts) == IF parts = <<>> THEN <<>> ELSE Head(parts) \o Flatten(Tail(parts))

\* query_response_to_csv(&response): header line, then one line per row.
query_response_to_csv(q) ==
    JoinWith(q.columns, <<",">>) \o <<"\n">>
    \o Flatten([r \in DOMAIN q.rows |->
                    JoinWith([c \in DOMAIN q.rows[r] |-> CsvField(q.rows[r][c])], <<",">>) \o <<"\n">>])

RECURSIVE CsvScan(_, _, _, _)
\* One field of a CSV text, read left to right from position i: `quoted` tells
\* whether the scan is inside quotes, `field` is the part read so far. Gives
\* the field, the position after its delimiter and the delimiter met.
CsvScan(text, i, quoted, field) ==
    IF i > Len(text) THEN [field |-> field, next |-> i, end |-> "eof"]
    ELSE LET ch == text[i]
         IN IF quoted
            THEN IF ch = "\""
                 THEN IF i < Len(text) /\ text[i + 1] = "\""
                      THEN CsvScan(text, i + 2, TRUE, Append(field, "\""))
                      ELSE CsvScan(text, i + 1, FALSE, field)
                 ELSE CsvScan(text, i + 1, TRUE, Append(field, ch))
            ELSE IF ch = "\"" THEN CsvScan(text, i + 1, TRUE, field)
            ELSE IF ch = "," THEN [field |-> field, next |-> i + 1, end |-> ","]
            ELSE IF ch = "\n" THEN [field |-> field, next |-> i + 1, end |-> "\n"]
            ELSE IF ch = "\r" /\ i < Len(text) /\ text[i + 1] = "\n"
            THEN [field |-> field, next |-> i + 2, end |-> "\n"]
            ELSE CsvScan(text, i + 1, FALSE, Append(field, ch))

RECURSIVE CsvRecordAt(_, _, _)
\* The record that starts at position i, after the fields already in `record`.
CsvRecordAt(text, i, record) ==
    LET f == CsvScan(text, i, FALSE, <<>>)
    IN IF f.end = "," THEN CsvRecordAt(text, f.next, Append(record, f.field))
       ELSE [record |-> IF f.end = "eof" /\ f.field = <<>> /\ record = <<>>
                        THEN <<>> ELSE Append(record, f.field),
             next |-> f.next]

RECURSIVE CsvRecordsFrom(_, _, _)
CsvRecordsFrom(text, i, done) ==
    IF i > Len(text) THEN done
    ELSE LET r == CsvRecordAt(text, i, <<>>)
         IN CsvRecordsFrom(text, r.next, IF r.record = <<>> THEN done ELSE Append(done, r.record))

\* The records of a CSV text.
CsvRecords(text) == CsvRecordsFrom(text, 1, <<>>)

----------------------------------------------------------------------------
\* Query handlers running side by side (core.rs execute_query and
\* download_query_csv), each call with its own executor.

MaxCalls == 2

\* The request-pipeline variables while the concurrent handlers are observed.
RequestIdle ==
    /\ table = EmptyDf /\ df = EmptyDf /\ prev = EmptyDf
    /\ operations = <<>> /\ idx = 0 /\ applied = <<>> /\ failedAt = 0
    /\ pc = "idle" /\ batches = <<>> /\ response = Pending

UserIds == {"u1", "u2"}

InitialUsers ==
    [u \in UserIds |-> [total_queries |-> IF u = "u1" THEN 0 ELSE 7,
                        total_saved_queries |-> IF u = "u1" THEN 1 ELSE 0]]

UploadRow(table_name, user_id, s3_key) ==
    [table_name |-> table_name, user_id |-> user_id, s3_key |-> s3_key]

InitialUploads == {UploadRow("upload_1", "u1", "k1"), UploadRow("upload_2", "u2", "k2")}

TableOfKey(k) ==
    [schema |-> BaseSchema,
     rows |-> IF k = "k1"
              THEN <<<<IntCell(1), StrCell(<<"a">>), FloatCell(21, 2), IntCell(5)>>,
                     <<IntCell(3), StrCell(<<"c">>), Null, Null>>>>
              ELSE <<<<IntCell(2), StrCell(<<"b">>), FloatCell(20, 1), IntCell(5)>>>>]

InitialObjects == [k \in {"k1", "k2"} |-> TableOfKey(k)]

Message(text) == [prefix |-> "", text |-> text, column |-> <<>>]

\* payload.table_name = None
NoTableName == ""

QueryCall(handler, user_id, table_name, ops) ==
    [handler |-> handler, user_id |-> user_id, table_name |-> table_name, operations |-> ops,
     pc |-> "lookup", s3_key |-> "", path |-> "", table |-> EmptyDf, df |-> EmptyDf,
     batches |-> <<>>, failedAt |-> 0, response |-> Pending, csv |-> <<>>, fetched |-> {}]

QueryCallPool ==
    {QueryCall("execute_query", "u1", "upload_1", <<>>),
     QueryCall("download_query_csv", "u1", "upload_1", <<Limit(1)>>),
     QueryCall("execute_query", "u1", "upload_2", <<>>),
     QueryCall("execute_query", "u2", "upload_2", <<Transform(ColId, "Multiply", 2, 1, <<"x">>)>>),
     QueryCall("execute_query", "u1", "upload_1", <<Select(<<ColId, ColAbsent>>)>>),
     QueryCall("download_query_csv", "u2", "upload_2", <<Transform(ColId, "Divide", 0, 1, ColId)>>),
     QueryCall("download_query_csv", "u2", "upload_1", <<Limit(1)>>),
     QueryCall("execute_query", "u2", NoTableName, <<>>)}

InitServe ==
    /\ RequestIdle
    /\ users = InitialUsers
    /\ uploads = InitialUploads
    /\ saved_queries = {}
    /\ objects = InitialObjects
    /\ files = <<>>
    /\ \E n \in 1..MaxCalls : calls \in [1..n -> QueryCallPool]

\* A lookup that forgets the owner.
get_upload_by_table_name_any_owner(rows, table_name, user_id) ==
    {up \in rows : up.table_name = table_name}

\* get_upload_by_table_name: SELECT ... WHERE table_name = $1 AND user_id = $2
get_upload_by_table_name(rows, table_name, user_id) ==
    {up \in rows : up.table_name = table_name /\ up.user_id = user_id}

\* A temporary path that is the same for every call.
TempPathShared(c) == "./uploads/temp.csv"

\* format!("./uploads/temp_{}.csv", Uuid::new_v4()): a path no other call has.
TempPath(c) == <<"./uploads/temp_", c, ".csv">>

\* An UPDATE without its WHERE clause.
increment_query_count_of_everyone(rows, user_id) ==
    [u \in DOMAIN rows |-> [rows[u] EXCEPT !.total_queries = @ + 1]]

\* increment_query_count: UPDATE users SET total_queries = total_queries + 1 WHERE id = $1
increment_query_count(rows, user_id) ==
    [rows EXCEPT ![user_id].total_queries = @ + 1]

Put(f, k, v) == [x \in DOMAIN f \cup {k} |-> IF x = k THEN v ELSE f[x]]

Finish(c, r) == calls' = [calls EXCEPT ![c].pc = "done", ![c].response = r]

\* table_name check and get_upload_by_table_name(...).await?
Lookup(c) ==
    /\ c \in DOMAIN calls
    /\ calls[c].pc = "lookup"
    /\ LET found == get_upload_by_table_name(uploads, calls[c].table_name, calls[c].user_id)
       IN IF calls[c].table_name = NoTableName
          THEN Finish(c, Failure(DoubledeckerError("Internal", Message("table_name is required"))))
          ELSE IF found = {}
          THEN Finish(c, Failure(DoubledeckerError("NotFound", Message("Upload not found or access denied"))))
          ELSE \E up \in found :
                calls' = [calls EXCEPT ![c].pc = "download", ![c].s3_key = up.s3_key]
    /\ UNCHANGED <<users, uploads, saved_queries, objects, files>>
    /\ UNCHANGED requestVars

\* load_csv, first half: download_csv(s3_key) and the write of the temporary file
Download(c) ==
    /\ c \in DOMAIN calls
    /\ calls[c].pc = "download"
    /\ IF calls[c].s3_key \in DOMAIN objects
       THEN /\ files' = Put(files, TempPath(c), objects[calls[c].s3_key])
            /\ calls' = [calls EXCEPT ![c].pc = "register", ![c].path = TempPath(c),
                                      ![c].fetched = @ \cup {calls[c].s3_key}]
       ELSE /\ Finish(c, Failure(DoubledeckerError("DataFusionError", Message("External error"))))
            /\ UNCHANGED files
    /\ UNCHANGED <<users, uploads, saved_queries, objects>>
    /\ UNCHANGED requestVars

\* load_csv, second half: register_csv(table_name, &actual_path, options)
Register(c) ==
    /\ c \in DOMAIN calls
    /\ calls[c].pc = "register"
    /\ calls' = [calls EXCEPT ![c].pc = "execute", ![c].table = files[calls[c].path],
                              ![c].df = files[calls[c].path]]
    /\ UNCHANGED <<users, uploads, saved_queries, objects, files>>
    /\ UNCHANGED requestVars

\* executor.execute_operations(&table_name, payload.operations): loop and collect
Execute(c) ==
    /\ c \in DOMAIN calls
    /\ calls[c].pc = "execute"
    /\ \/ \E d \in Pipeline(calls[c].table, calls[c].operations) : \E b \in CollectOutcomes(d) :
            calls' = [calls EXCEPT ![c].pc = "encode", ![c].df = d, ![c].batches = b]
       \/ \E f \in Failures(calls[c].table, calls[c].operations, 1) :
            calls' = [calls EXCEPT ![c].pc = "done", ![c].failedAt = f.index,
                                   ![c].response = Failure(MapExecuteError(f.err))]
    /\ UNCHANGED <<users, uploads, saved_queries, objects, files>>
    /\ UNCHANGED requestVars

\* parse_batch_to_json(batches).await?
Encode(c) ==
    /\ c \in DOMAIN calls
    /\ calls[c].pc = "encode"
    /\ LET q == parse_batch_to_json(calls[c].batches)
       IN IF q.ok THEN calls' = [calls EXCEPT ![c].pc = "count", ![c].response = Success(q)]
          ELSE Finish(c, Failure(InvalidFloat))
    /\ UNCHANGED <<users, uploads, saved_queries, objects, files>>
    /\ UNCHANGED requestVars

\* increment_query_count(...).await? and the Ok(..) of the handler
Count(c) ==
    /\ c \in DOMAIN calls
    /\ calls[c].pc = "count"
    /\ users' = increment_query_count(users, calls[c].user_id)
    /\ calls' = [calls EXCEPT ![c].pc = "done",
                              ![c].csv = IF calls[c].handler = "download_query_csv"
                                         THEN query_response_to_csv(calls[c].response) ELSE <<>>]
    /\ UNCHANGED <<uploads, saved_queries, objects, files>>
    /\ UNCHANGED requestVars

CallIds == 1..MaxCalls

NextServe ==
    \E c \in CallIds :
        Lookup(c) \/ Download(c) \/ Register(c) \/ Execute(c) \/ Encode(c) \/ Count(c)

SpecServe == InitServe /\ [][NextServe]_vars

\* The responses a request can get when it is the only one running, from the
\* stores as they were before any call.
AloneResponses(call) ==
    LET found == {up \in InitialUploads :
                    up.table_name = call.table_name /\ up.user_id = call.user_id}
    IN IF call.table_name = NoTableName
       THEN {Failure(DoubledeckerError("Internal", Message("table_name is required")))}
       ELSE IF found = {}
       THEN {Failure(DoubledeckerError("NotFound", Message("Upload not found or access denied")))}
       ELSE UNION {
              {Failure(MapExecuteError(f.err)) : f \in Failures(InitialObjects[up.s3_key], call.operations, 1)}
              \cup {ResponseOf(d) : d \in Pipeline(InitialObjects[up.s3_key], call.operations)}
              : up \in found}

\* C25: concurrent requests are isolated: under every interleaving each
\* request gets the result it would get when run alone, the table it executes
\* on is the content of its own upload, and the uploads and the bucket are
\* left as they were.
C25_RequestsIsolated ==
    /\ uploads = InitialUploads /\ objects = InitialObjects
    /\ \A c \in DOMAIN calls :
        /\ calls[c].pc \in {"execute", "encode", "count"} =>
            \E up \in InitialUploads :
                /\ up.table_name = calls[c].table_name /\ up.user_id = calls[c].user_id
                /\ calls[c].table = InitialObjects[up.s3_key]
        /\ (calls[c].pc = "done" /\ (calls[c].response.status = "ok" => calls[c].df.rows # <<>>)) =>
            calls[c].response \in AloneResponses(calls[c])

C25_Witness ==
    /\ Len(calls) = 2
    /\ calls[1].table_name = "upload_1" /\ calls[2].table_name = "upload_2"
    /\ calls[1].pc = "done" /\ calls[1].response.status = "ok"
    /\ calls[2].pc = "done" /\ calls[2].response.status = "ok"
    /\ Len(calls[1].response.rows) = 2 /\ Len(calls[2].response.rows) = 1
    /\ DOMAIN files = {TempPath(1), TempPath(2)}
    /\ files[TempPath(1)] # files[TempPath(2)]

Completed(u) ==
    {c \in DOMAIN calls : calls[c].user_id = u /\ calls[c].pc = "done" /\ calls[c].response.status = "ok"}

\* C28: a user's total_queries is its initial value plus the number of that
\* user's query requests whose load, pipeline and encoding all succeeded and
\* that have returned; a request failing at any of those steps leaves it
\* unchanged, and no increment is lost under any interleaving.
C28_QueryCounter ==
    \A u \in UserIds :
        /\ users[u].total_queries = InitialUsers[u].total_queries + Cardinality(Completed(u))
        /\ users[u].total_saved_queries = InitialUsers[u].total_saved_queries

C28_Witness ==
    /\ Len(calls) = 2
    /\ calls[1].user_id = "u2" /\ calls[2].user_id = "u2"
    /\ calls[1].handler = "execute_query" /\ calls[2].handler = "download_query_csv"
    /\ calls[1].pc = "done" /\ calls[2].pc = "done"
    /\ calls[1].response.status = "ok" /\ calls[2].response.status = "error"
    /\ users["u2"].total_queries = InitialUsers["u2"].total_queries + 1
    /\ users["u1"] = InitialUsers["u1"]

OwnedKeys(u) == {up.s3_key : up \in {x \in uploads : x.user_id = u}}

NamesForeignTable(call) ==
    /\ call.table_name # NoTableName
    /\ \A up \in uploads : up.table_name = call.table_name => up.user_id # call.user_id

\* C29: a query handler fetches bytes only through an upload row of the
\* authenticated user; a request naming a table that exists only under another
\* user fails with NotFound before any byte is fetched, any operation is
\* applied or any counter is changed.
C29_OwnershipIsolation ==
    \A c \in DOMAIN calls :
        /\ calls[c].fetched \subseteq OwnedKeys(calls[c].user_id)
        /\ (NamesForeignTable(calls[c]) /\ calls[c].pc # "lookup") =>
            /\ calls[c].pc = "done"
            /\ calls[c].response.status = "error"
            /\ calls[c].response.error.variant = "NotFound"
            /\ status_code(calls[c].response.error) = 404
            /\ calls[c].fetched = {} /\ calls[c].path = ""
            /\ calls[c].df = EmptyDf /\ calls[c].batches = <<>>
            /\ (\A k \in DOMAIN calls : k # c => calls[k].pc = "lookup") => users = InitialUsers

C29_Witness ==
    /\ Len(calls) = 2
    /\ calls[1].user_id = "u2" /\ calls[1].table_name = "upload_1"
    /\ calls[1].pc = "done"
    /\ calls[1].response.error.variant = "NotFound"
    /\ calls[2].pc = "lookup"
    /\ files = <<>>

----------------------------------------------------------------------------
\* Upload of a CSV file (helpers.rs handle_file_upload, called by upload_csv)
\* and the load of the stored file (executor.rs load_csv).

MaxDataLines == 2

UpperChars == <<"A", "D", "I", "N">>
LowerChars == <<"a", "d", "i", "n">>

\* char::to_lowercase on the letters of the model
ToLowerChar(ch) ==
    IF \E i \in DOMAIN UpperChars : UpperChars[i] = ch
    THEN LowerChars[CHOOSE i \in DOMAIN UpperChars : UpperChars[i] = ch]
    ELSE ch

\* str::to_lowercase
to_lowercase(text) == [i \in DOMAIN text |-> ToLowerChar(text[i])]

StripCr(line) ==
    IF line # <<>> /\ line[Len(line)] = "\r" THEN SubSeq(line, 1, Len(line) - 1) ELSE line

RECURSIVE SplitLines(_, _, _)
\* str::lines: the text cut at every "\n", a "\r" before it removed; a last
\* line without "\n" is a line, an empty rest is not.
SplitLines(text, line, done) ==
    IF text = <<>> THEN (IF line = <<>> THEN done ELSE Append(done, line))
    ELSE IF Head(text) = "\n" THEN SplitLines(Tail(text), <<>>, Append(done, StripCr(line)))
    ELSE SplitLines(Tail(text), Append(line, Head(text)), done)

lines(text) == SplitLines(text, <<>>, <<>>)

FileUploadError(text) == DoubledeckerError("FileUpload", Message(text))

\* The body of handle_file_upload for one multipart body: Ok(normalized text)
\* or the error returned.
handle_file_upload(body) ==
    LET ls == lines(body.text)
        normalized_lines == <<to_lowercase(ls[1])>> \o Tail(ls)
    IN IF ~body.has_file
       THEN [ok |-> FALSE, err |-> FileUploadError("No file field found in multipart data"), text |-> <<>>]
       ELSE IF ~body.utf8
       THEN [ok |-> FALSE, err |-> FileUploadError("Invalid UTF-8"), text |-> <<>>]
       ELSE IF ls = <<>>
       THEN [ok |-> FALSE, err |-> FileUploadError("Empty CSV file"), text |-> <<>>]
       ELSE [ok |-> TRUE, err |-> NoDoubledeckerError, text |-> JoinWith(normalized_lines, <<"\n">>)]

\* format!("{}/upload_{}.csv", upload_dir, Uuid::new_v4())
UploadPath(c) == <<"./uploads/upload_", c, ".csv">>

Body(has_file, utf8, text) == [has_file |-> has_file, utf8 |-> utf8, text |-> text]

Headers == {<<"I", "d">>, <<"I", "d", ",", "N">>, <<"i", "d">>}

DataLines ==
    {<<"1">>, <<"A", ",", "b">>, <<"2", ",", "\"", "a", ",", "b", "\"">>,
     <<"3", ",", "\"", "x", "\r", "\n", "y", "\"">>}

Terminators == {<<"\n">>, <<"\r", "\n">>}

\* Header and data lines, each line ended by `nl`, the last one only if `last`.
CsvText(header, data, nl, last) ==
    LET all == <<header>> \o data
    IN JoinWith(all, nl) \o (IF last THEN nl ELSE <<>>)

BodyPool ==
    {Body(TRUE, TRUE, CsvText(h, d, nl, last)) :
        h \in Headers, d \in SeqsUpTo(DataLines, MaxDataLines), nl \in Terminators, last \in BOOLEAN}
    \cup {Body(TRUE, TRUE, <<>>), Body(TRUE, FALSE, <<>>), Body(FALSE, TRUE, <<>>)}

UploadCall(body) ==
    [handler |-> "upload_csv", body |-> body, pc |-> "upload", path |-> "",
     result |-> [ok |-> FALSE, err |-> NoDoubledeckerError, text |-> <<>>],
     response |-> Pending, table |-> <<>>]

InitUpload ==
    /\ RequestIdle
    /\ users = InitialUsers
    /\ uploads = {}
    /\ saved_queries = {}
    /\ objects = <<>>
    /\ files = <<>>
    /\ \E b \in BodyPool : calls = <<UploadCall(b)>>

\* upload_csv: handle_file_upload(multipart).await.map_err(MultipartError(e.to_string()))?
HandleFileUpload(c) ==
    /\ c \in DOMAIN calls
    /\ calls[c].pc = "upload"
    /\ LET r == handle_file_upload(calls[c].body)
       IN IF r.ok
          THEN /\ files' = Put(files, UploadPath(c), r.text)
               /\ calls' = [calls EXCEPT ![c].pc = "load", ![c].path = UploadPath(c), ![c].result = r]
          ELSE /\ calls' = [calls EXCEPT ![c].pc = "done", ![c].result = r,
                                         ![c].response = Failure(DoubledeckerError("MultipartError", r.err.message))]
               /\ UNCHANGED files
    /\ UNCHANGED <<users, uploads, saved_queries, objects>>
    /\ UNCHANGED requestVars

\* load_csv(path, table_name) on the stored file: the records the reader finds
LoadCsv(c) ==
    /\ c \in DOMAIN calls
    /\ calls[c].pc = "load"
    /\ calls' = [calls EXCEPT ![c].pc = "done", ![c].table = CsvRecords(files[calls[c].path])]
    /\ UNCHANGED <<users, uploads, saved_queries, objects, files>>
    /\ UNCHANGED requestVars

NextUpload == \E c \in CallIds : HandleFileUpload(c) \/ LoadCsv(c)

SpecUpload == InitUpload /\ [][NextUpload]_vars

\* C26: loading lower-cases the header row and changes nothing else: the data
\* rows of the loaded table are, in number, order and content, those of the
\* uploaded text.
C26_HeaderNormalization ==
    \A c \in DOMAIN calls :
        (calls[c].handler = "upload_csv" /\ calls[c].pc = "done" /\ calls[c].result.ok) =>
            LET sent == CsvRecords(calls[c].body.text)
                loaded == calls[c].table
            IN /\ loaded[1] = [i \in DOMAIN sent[1] |-> to_lowercase(sent[1][i])]
               /\ Tail(loaded) = Tail(sent)

\* C27: loading fails with a ParseError, and produces no table and no stored
\* file, when the input has no line at all or is not valid UTF-8.
C27_ParseErrorOnLoad ==
    \A c \in DOMAIN calls :
        (/\ calls[c].handler = "upload_csv" /\ calls[c].pc = "done"
         /\ calls[c].body.has_file
         /\ (~calls[c].body.utf8 \/ calls[c].body.text = <<>>)) =>
            /\ calls[c].response.status = "error"
            /\ files = <<>> /\ calls[c].table = <<>>
            /\ calls[c].result.err.variant = "ParseError"
            /\ calls[c].response.error.variant = "ParseError"

----------------------------------------------------------------------------
\* Saved queries (db/operations.rs create_saved_query and delete_saved_query),
\* each call made of two SQL statements that other calls can run between.

SavedRow(id, user_id, name) == [id |-> id, user_id |-> user_id, name |-> name]

InitialSaved == {SavedRow("q0", "u1", "n1")}

\* The id the INSERT of call c returns: one no other row has had.
SavedId(c) == "q" \o ToString(c)

SavedCall(handler, user_id, id, name) ==
    [handler |-> handler, user_id |-> user_id, id |-> id, name |-> name,
     pc |-> "first", affected |-> 0, response |-> Pending]

SavedCallPool ==
    {SavedCall("create_saved_query", "u1", "", "n1"),
     SavedCall("create_saved_query", "u1", "", "n2"),
     SavedCall("create_saved_query", "u2", "", "n1"),
     SavedCall("delete_saved_query", "u1", "q0", ""),
     SavedCall("delete_saved_query", "u2", "q0", ""),
     SavedCall("delete_saved_query", "u1", "zz", ""),
     SavedCall("delete_saved_query", "u1", SavedId(1), "")}

InitSaved ==
    /\ RequestIdle
    /\ users = InitialUsers
    /\ uploads = {}
    /\ saved_queries = InitialSaved
    /\ objects = <<>>
    /\ files = <<>>
    /\ \E n \in 1..MaxCalls : calls \in [1..n -> SavedCallPool]

\* A DELETE that forgets the owner.
DeleteMatchesAnyOwner(rows, id, user_id) == {r \in rows : r.id = id}

\* DELETE FROM saved_queries WHERE id = $1 AND user_id = $2: the rows affected
DeleteMatches(rows, id, user_id) == {r \in rows : r.id = id /\ r.user_id = user_id}

\* UPDATE users SET total_saved_queries = total_saved_queries + by WHERE id = $1
add_saved_queries(rows, user_id, by) == [rows EXCEPT ![user_id].total_saved_queries = @ + by]

DatabaseError(text) == DoubledeckerError("DatabaseError", Message(text))

\* create_saved_query: INSERT INTO saved_queries ... RETURNING ...
InsertSavedQuery(c) ==
    /\ c \in DOMAIN calls
    /\ calls[c].handler = "create_saved_query" /\ calls[c].pc = "first"
    /\ IF \E r \in saved_queries : r.user_id = calls[c].user_id /\ r.name = calls[c].name
       THEN /\ Finish(c, Failure(DatabaseError("A saved query with this name already exists")))
            /\ UNCHANGED saved_queries
       ELSE /\ saved_queries' = saved_queries \cup {SavedRow(SavedId(c), calls[c].user_id, calls[c].name)}
            /\ calls' = [calls EXCEPT ![c].pc = "second", ![c].id = SavedId(c), ![c].affected = 1]
    /\ UNCHANGED <<users, uploads, objects, files>>
    /\ UNCHANGED requestVars

\* create_saved_query: UPDATE users SET total_saved_queries = total_saved_queries + 1, Ok(saved_query)
IncrementSaved(c) ==
    /\ c \in DOMAIN calls
    /\ calls[c].handler = "create_saved_query" /\ calls[c].pc = "second"
    /\ users' = add_saved_queries(users, calls[c].user_id, 1)
    /\ calls' = [calls EXCEPT ![c].pc = "done", ![c].response = [Pending EXCEPT !.status = "ok"]]
    /\ UNCHANGED <<uploads, saved_queries, objects, files>>
    /\ UNCHANGED requestVars

\* delete_saved_query: the DELETE and the rows_affected() == 0 test
DeleteSavedQuery(c) ==
    /\ c \in DOMAIN calls
    /\ calls[c].handler = "delete_saved_query" /\ calls[c].pc = "first"
    /\ LET hit == DeleteMatches(saved_queries, calls[c].id, calls[c].user_id)
       IN /\ saved_queries' = saved_queries \ hit
          /\ IF Cardinality(hit) = 0
             THEN Finish(c, Failure(DoubledeckerError("NotFound", Message("Saved query not found"))))
             ELSE calls' = [calls EXCEPT ![c].pc = "second", ![c].affected = Cardinality(hit)]
    /\ UNCHANGED <<users, uploads, objects, files>>
    /\ UNCHANGED requestVars

\* delete_saved_query: UPDATE users SET total_saved_queries = total_saved_queries - 1, Ok(())
DecrementSaved(c) ==
    /\ c \in DOMAIN calls
    /\ calls[c].handler = "delete_saved_query" /\ calls[c].pc = "second"
    /\ users' = add_saved_queries(users, calls[c].user_id, 0 - 1)
    /\ calls' = [calls EXCEPT ![c].pc = "done", ![c].response = [Pending EXCEPT !.status = "ok"]]
    /\ UNCHANGED <<uploads, saved_queries, objects, files>>
    /\ UNCHANGED requestVars

NextSaved ==
    \E c \in CallIds :
        InsertSavedQuery(c) \/ IncrementSaved(c) \/ DeleteSavedQuery(c) \/ DecrementSaved(c)

SpecSaved == InitSaved /\ [][NextSaved]_vars

Succeeded(handler, u) ==
    {c \in DOMAIN calls : /\ calls[c].handler = handler /\ calls[c].user_id = u
                          /\ calls[c].pc = "done" /\ calls[c].response.status = "ok"}

\* The owners a saved-query id has ever had: of an initial row or of the row
\* a create call inserted.
OwnersOf(id) ==
    {r.user_id : r \in {x \in InitialSaved : x.id = id}}
    \cup {calls[c].user_id : c \in {k \in DOMAIN calls :
                                      calls[k].handler = "create_saved_query" /\ calls[k].id = id}}

RowsOf(rows, u) == {r \in rows : r.user_id = u}

\* C30: once every create_saved_query and delete_saved_query call has
\* returned, each user's total_saved_queries is its initial value plus that
\* user's successful creates minus successful deletes, which is also the
\* change in the number of the user's rows; a delete matching no row (wrong
\* id, wrong owner, already deleted, the loser of two deletes of one id)
\* returns NotFound without decrementing.
C30_SavedQueryCounter ==
    /\ (\A c \in DOMAIN calls : calls[c].pc = "done") =>
        \A u \in UserIds :
            /\ users[u].total_saved_queries =
                InitialUsers[u].total_saved_queries
                + Cardinality(Succeeded("create_saved_query", u))
                - Cardinality(Succeeded("delete_saved_query", u))
            /\ users[u].total_saved_queries - InitialUsers[u].total_saved_queries =
                Cardinality(RowsOf(saved_queries, u)) - Cardinality(RowsOf(InitialSaved, u))
    /\ \A c \in DOMAIN calls : calls[c].handler = "delete_saved_query" =>
        /\ (calls[c].pc # "first" /\ calls[c].affected = 0) =>
            /\ calls[c].pc = "done"
            /\ calls[c].response.status = "error"
            /\ calls[c].response.error.variant = "NotFound"
        /\ calls[c].user_id \notin OwnersOf(calls[c].id) =>
            (calls[c].pc \in {"first", "done"} /\ calls[c].response.status # "ok")
        /\ \A k \in DOMAIN calls :
            (/\ k # c /\ calls[k].handler = "delete_saved_query" /\ calls[k].id = calls[c].id
             /\ calls[k].pc # "first" /\ calls[c].pc # "first") =>
                (calls[k].affected = 0 \/ calls[c].affected = 0)

C30_Witness ==
    /\ Len(calls) = 2
    /\ calls[1] = [SavedCall("delete_saved_query", "u1", "q0", "") EXCEPT
                      !.pc = "done", !.response = Failure(DoubledeckerError("NotFound", Message("Saved query not found")))]
    /\ calls[2].handler = "delete_saved_query" /\ calls[2].id = "q0" /\ calls[2].user_id = "u1"
    /\ calls[2].pc = "done" /\ calls[2].response.status = "ok"
    /\ users["u1"].total_saved_queries = InitialUsers["u1"].total_saved_queries - 1
    /\ saved_queries = {}

====
